---- MODULE Spec2Model ----
(***************************************************************************)
(* The connection runtime of amqprs: the Connection facade of              *)
(* src/amqprs/src/api/connection.rs (close, open_channel,                  *)
(* register_responder, register_channel_resource, register_callback,       *)
(* Drop), running against ReaderHandler, WriterHandler, the                *)
(* synchronous_request! macro, the Channel facade and a broker.  The       *)
(* latter are not part of connection.rs; they are modelled from the        *)
(* design document (sections 4.2, 4.3, 4.4, 4.6, 4.7).                     *)
(***************************************************************************)
EXTENDS Integers, Sequences, FiniteSets, TLC

\* ---------------------------------------------------------------- bounds
ChannelMax == 2
NumUsers == 2
MgmtCap == 1
OutCap == 1
WireCap == 2
InCap == 1
MaxCalls == 2
MaxFaults == 1
MaxSecure == 1
MaxTune == 2

\* ------------------------------------------------------------- constants
CONN_DEFAULT_CHANNEL == 0
NoId == 0 - 1
NoTask == 0

Users == 1 .. NumUsers
ReaderDetached == 2 * NumUsers + 1
Tasks == 1 .. ReaderDetached
UserIds == 1 .. ChannelMax

RpcKeys == {"QueueDeclareOk", "ExchangeDeclareOk"}

VARIABLES
    is_open,        \* SharedConnectionInner.is_open
    hasHandle,      \* user task -> it still holds its clone of Connection
    task,           \* task -> its position in the facade call it runs
    mgmt,           \* conn_mgmt channel: commands queued for ReaderHandler
    outgoing,       \* outgoing channel: frames queued for WriterHandler
    wire,           \* frames written to the socket, not yet consumed by the broker
    inbound,        \* frames the broker has sent, not yet read by ReaderHandler
    channels,       \* registry: ids with a ChannelResource
    responders,     \* registry: waiters, [ch, key, task, live]
    next_id,        \* registry: allocation hint
    callback,       \* registry: a connection callback is installed
    readerRunning,  \* ReaderHandler task has not exited (it owns conn_mgmt_rx)
    writerRunning,  \* WriterHandler task has not exited (it owns outgoing_rx)
    shutdown,       \* the shutdown broadcast has been sent
    chanHandles,    \* ids of the channels whose Channel handle is open
    brokerOpen,     \* channels the broker holds open
    brokerConn,     \* the broker holds the connection open
    closeWritten,   \* history: a Connection.Close frame was written to the socket
    closeReturnedOk,\* history: a close() has returned Ok
    lostReply,      \* history: replies routed while no waiter was registered
    reordered,      \* history: the broker answered a request before an earlier one
    everRemoved,    \* history: an entry of a user channel was removed
    calls,          \* number of facade calls the user tasks have begun
    faults,         \* number of faults of the environment so far
    hs              \* Connection::open: its position, its transport, its tune

vars == <<is_open, hasHandle, task, mgmt, outgoing, wire, inbound, channels,
          responders, next_id, callback, readerRunning, writerRunning,
          shutdown, chanHandles, brokerOpen, brokerConn, closeWritten,
          closeReturnedOk, lostReply, reordered, everRemoved, calls,
          faults, hs>>

\* ---------------------------------------------------------------- frames
Frame(ch, m, by) == [ch |-> ch, m |-> m, by |-> by]
NoFrame == Frame(NoId, "none", NoTask)

\* The request method an expected response answers.
ReqOf(key) ==
    CASE key = "CloseOk" -> "Close"
      [] key = "OpenChannelOk" -> "OpenChannel"
      [] key = "CloseChannelOk" -> "CloseChannel"
      [] key = "QueueDeclareOk" -> "QueueDeclare"
      [] key = "ExchangeDeclareOk" -> "ExchangeDeclare"
      [] OTHER -> "none"

ReplyOf(m) ==
    CASE m = "Close" -> "CloseOk"
      [] m = "OpenChannel" -> "OpenChannelOk"
      [] m = "CloseChannel" -> "CloseChannelOk"
      [] m = "QueueDeclare" -> "QueueDeclareOk"
      [] m = "ExchangeDeclare" -> "ExchangeDeclareOk"
      [] OTHER -> "none"

\* ------------------------------------------------------ one-shot channels
EmptySlot == [st |-> "none", fr |-> NoFrame]
PendingSlot == [st |-> "pending", fr |-> NoFrame]
ClosedSlot == [st |-> "closed", fr |-> NoFrame]
FullSlot(f) == [st |-> "full", fr |-> f]

IdleTask ==
    [pc |-> "idle", op |-> "none", ch |-> NoId, key |-> "none",
     ack |-> "none", ackv |-> NoId, slot |-> EmptySlot, res |-> "none",
     pre |-> TRUE, after |-> FALSE]

NotSpawned == [IdleTask EXCEPT !.pc = "unborn"]

IsDetached(t) == t \notin Users

\* A facade call of task t returns r.  A detached close task ends with it; on
\* Err it panics (connection.rs:332-334).
Returned(rec, r) ==
    [rec EXCEPT !.pc = "returned", !.res = r, !.ack = "none", !.ackv = NoId,
                !.slot = EmptySlot]

DetachedEnd(rec, r) ==
    [IdleTask EXCEPT !.pc = IF r = "ok" THEN "exited" ELSE "panicked",
                     !.op = "close", !.res = r, !.after = rec.after]

Finish(t, rec, r) == IF IsDetached(t) THEN DetachedEnd(rec, r) ELSE Returned(rec, r)

\* A call of op by task t begins: what the task knows at that moment.
Begin(rec, op) ==
    [rec EXCEPT !.op = op, !.ch = NoId, !.key = "none", !.res = "none",
                !.pre = IF op = "close" THEN is_open ELSE TRUE,
                !.after = closeReturnedOk]

\* ------------------------------------------------------------ the facade
regVars == <<channels, responders, next_id, callback>>
netVars == <<wire, inbound, brokerOpen, brokerConn>>
runVars == <<readerRunning, writerRunning, shutdown>>

\* Mutant: register_responder registers the header of the other declare-ok.
RegisterResponderCmd_Swapped(t, channel_id, method_header) ==
    [type |-> "RegisterResponder", channel_id |-> channel_id,
     key |-> IF method_header = "QueueDeclareOk" THEN "ExchangeDeclareOk"
             ELSE IF method_header = "ExchangeDeclareOk" THEN "QueueDeclareOk"
             ELSE method_header,
     task |-> t, live |-> TRUE]

\* connection.rs:157-164: the command register_responder builds.
RegisterResponderCmd(t, channel_id, method_header) ==
    [type |-> "RegisterResponder", channel_id |-> channel_id,
     key |-> method_header, task |-> t, live |-> TRUE]

\* connection.rs:216-221: the command register_channel_resource builds.
\* Mutant: the command always asks for channel id 1.
RegisterChannelResourceCmd_Fixed(t, channel_id) ==
    [type |-> "RegisterChannelResource", channel_id |-> 1,
     key |-> "none", task |-> t, live |-> TRUE]

RegisterChannelResourceCmd(t, channel_id) ==
    [type |-> "RegisterChannelResource", channel_id |-> channel_id,
     key |-> "none", task |-> t, live |-> TRUE]

\* connection.rs:177-179: the command register_callback builds.
RegisterConnectionCallbackCmd(t) ==
    [type |-> "RegisterConnectionCallback", channel_id |-> NoId,
     key |-> "none", task |-> NoTask, live |-> FALSE]

UnregisterChannelResourceCmd(t, channel_id) ==
    [type |-> "UnregisterChannelResource", channel_id |-> channel_id,
     key |-> "none", task |-> t, live |-> TRUE]

\* connection.rs:165-169: conn_mgmt_tx.send(..).await?  It fails when the
\* receiver is gone, suspends while the queue is full, and then the caller
\* awaits acker_rx.
register_responder(t, rec, channel_id, method_header) ==
    IF ~readerRunning
    THEN /\ task' = [task EXCEPT ![t] = Finish(t, rec, "err")]
         /\ UNCHANGED mgmt
    ELSE /\ Len(mgmt) < MgmtCap
         /\ mgmt' = Append(mgmt, RegisterResponderCmd(t, channel_id, method_header))
         /\ task' = [task EXCEPT ![t] =
                        [rec EXCEPT !.pc = "rr_ack", !.ch = channel_id,
                                    !.key = method_header, !.ack = "pending",
                                    !.slot = PendingSlot]]

\* The user tasks begin at most MaxCalls facade calls in all.
Budget(t) ==
    IF t \in Users
    THEN calls < MaxCalls /\ calls' = calls + 1 /\ UNCHANGED <<faults, hs>>
    ELSE UNCHANGED <<calls, faults, hs>>

\* The environment fails at most MaxFaults times.
Fault ==
    /\ faults < MaxFaults
    /\ faults' = faults + 1
    /\ UNCHANGED <<calls, hs>>

\* A task may call the connection's methods while it holds a clone of the
\* handle; a detached close task owns its own clone (connection.rs:330-331).
CanCall(t) ==
    IF IsDetached(t) THEN task[t].pc = "spawned"
    ELSE task[t].pc = "idle" /\ hasHandle[t]

\* connection.rs:194-197: close() begins by registering the responder for
\* CloseOk on the default channel.  It does not read is_open.
close_call(t) ==
    /\ CanCall(t)
    /\ register_responder(t, Begin(task[t], "close"), CONN_DEFAULT_CHANNEL, "CloseOk")
    /\ UNCHANGED <<is_open, hasHandle, outgoing, regVars, netVars, runVars,
                   chanHandles, closeWritten, closeReturnedOk,
                   lostReply, reordered, everRemoved>>
    /\ Budget(t)

\* connection.rs:187-189: set_open_state stores the flag it is given.
set_open_state(t, flag) ==
    /\ t \in Users
    /\ CanCall(t)
    /\ is_open' = flag
    /\ UNCHANGED <<hasHandle, task, mgmt, outgoing, regVars, netVars, runVars,
                   chanHandles, closeWritten, closeReturnedOk,
                   lostReply, reordered, everRemoved>>
    /\ Budget(t)

\* Mutant: register_callback ignores the result of the send.
register_callback_result_Ignored(sent) == "ok"

\* connection.rs:180-184: the send's error is returned with `?`, else Ok(()).
register_callback_result(sent) == IF sent THEN "ok" ELSE "err"

\* connection.rs:173-185: register_callback posts the command and returns.
register_callback(t) ==
    /\ t \in Users
    /\ CanCall(t)
    /\ IF ~readerRunning
       THEN /\ task' = [task EXCEPT ![t] =
                           Returned(Begin(task[t], "register_callback"),
                                    register_callback_result(FALSE))]
            /\ UNCHANGED mgmt
       ELSE /\ Len(mgmt) < MgmtCap
            /\ mgmt' = Append(mgmt, RegisterConnectionCallbackCmd(t))
            /\ task' = [task EXCEPT ![t] =
                           Returned(Begin(task[t], "register_callback"),
                                    register_callback_result(TRUE))]
    /\ UNCHANGED <<is_open, hasHandle, outgoing, regVars, netVars, runVars,
                   chanHandles, closeWritten, closeReturnedOk,
                   lostReply, reordered, everRemoved>>
    /\ Budget(t)

\* connection.rs:281-297 with 211-229: open_channel begins by sending
\* RegisterChannelResource with no channel id.  A failed send makes
\* register_channel_resource return None, and open_channel its error.
open_channel_call(t) ==
    /\ t \in Users
    /\ CanCall(t)
    /\ IF ~readerRunning
       THEN /\ task' = [task EXCEPT ![t] =
                           Returned(Begin(task[t], "open_channel"), "err")]
            /\ UNCHANGED mgmt
       ELSE /\ Len(mgmt) < MgmtCap
            /\ mgmt' = Append(mgmt, RegisterChannelResourceCmd(t, NoId))
            /\ task' = [task EXCEPT ![t] =
                           [Begin(task[t], "open_channel") EXCEPT
                               !.pc = "rcr_ack", !.ack = "pending"]]
    /\ UNCHANGED <<is_open, hasHandle, outgoing, regVars, netVars, runVars,
                   chanHandles, closeWritten, closeReturnedOk,
                   lostReply, reordered, everRemoved>>
    /\ Budget(t)

\* Mutant: the id ReaderHandler answered is lost for the default one.
register_channel_resource_result_Zero(rec) ==
    IF rec.ack = "ok" /\ rec.ackv # NoId THEN CONN_DEFAULT_CHANNEL ELSE NoId

\* Mutant: a missing id is replaced by the default channel id.
register_channel_resource_result_Default(rec) ==
    IF rec.ack = "ok" /\ rec.ackv # NoId THEN rec.ackv ELSE CONN_DEFAULT_CHANNEL

\* connection.rs:231-242: what register_channel_resource returns once the
\* acker has answered: the id of the ack, or None when the acker was dropped.
register_channel_resource_result(rec) ==
    IF rec.ack = "ok" THEN rec.ackv ELSE NoId

\* connection.rs:294-301: None becomes ChannelOpenError; with an id,
\* open_channel registers the responder for OpenChannelOk on that id.
open_channel_registered(t) ==
    /\ task[t].op = "open_channel"
    /\ task[t].pc = "rcr_ack"
    /\ task[t].ack # "pending"
    /\ LET id == register_channel_resource_result(task[t])
           rec == [task[t] EXCEPT !.ack = "none", !.ackv = NoId]
       IN  IF id = NoId
           THEN /\ task' = [task EXCEPT ![t] = Returned(rec, "err")]
                /\ UNCHANGED mgmt
           ELSE register_responder(t, rec, id, "OpenChannelOk")
    /\ UNCHANGED <<is_open, hasHandle, outgoing, regVars, netVars, runVars,
                   chanHandles, closeWritten, closeReturnedOk,
                   lostReply, reordered, everRemoved>>
    /\ UNCHANGED <<calls, faults, hs>>

\* The one-shot receivers task t drops when it gives up a call: the sending
\* halves in the registry and in queued commands find them closed.
Abandoned(t) ==
    {IF r.task = t THEN [r EXCEPT !.live = FALSE] ELSE r : r \in responders}

AbandonedCmds(t) ==
    [i \in 1 .. Len(mgmt) |->
        IF mgmt[i].task = t THEN [mgmt[i] EXCEPT !.live = FALSE] ELSE mgmt[i]]

\* Mutant: register_responder returns the receiver without awaiting the acker.
register_responder_result_NoAwait(rec) ==
    IF rec.ack \in {"pending", "ok"} THEN "ok" ELSE "err"

\* connection.rs:169-170: register_responder awaits the acker before it
\* returns the receiver; a dropped or refusing acker is an error.
register_responder_result(rec) ==
    IF rec.ack = "pending" THEN "pending"
    ELSE IF rec.ack = "ok" THEN "ok" ELSE "err"

\* connection.rs:197-202 and 301-304: once register_responder has returned,
\* synchronous_request! sends the request frame on outgoing_tx.
request_send(t) ==
    /\ task[t].pc = "rr_ack"
    /\ register_responder_result(task[t]) # "pending"
    /\ IF register_responder_result(task[t]) = "err"
       THEN /\ task' = [task EXCEPT ![t] = Finish(t, task[t], "err")]
            /\ UNCHANGED <<outgoing, responders>>
       ELSE IF ~writerRunning
       THEN /\ task' = [task EXCEPT ![t] = Finish(t, task[t], "err")]
            /\ responders' = Abandoned(t)
            /\ UNCHANGED outgoing
       ELSE /\ Len(outgoing) < OutCap
            /\ outgoing' = Append(outgoing,
                                  Frame(task[t].ch, ReqOf(task[t].key), t))
            /\ task' = [task EXCEPT ![t].pc = "sr_wait"]
            /\ UNCHANGED responders
    /\ UNCHANGED <<is_open, hasHandle, mgmt, channels, next_id, callback,
                   netVars, runVars, chanHandles, closeWritten,
                   closeReturnedOk, lostReply, reordered, everRemoved>>
    /\ UNCHANGED <<calls, faults, hs>>

\* synchronous_request!: the awaited slot holds the expected response.
ExpectedResponse(rec) ==
    rec.slot.st = "full" /\ rec.slot.fr.m = rec.key

\* connection.rs:203-208 and 305-322, and the channel facade: the slot has
\* been completed.  An error or an unexpected frame is returned as an error;
\* otherwise close() stores is_open = false, open_channel builds the Channel,
\* a channel's close asks for its resource to be unregistered.
response_recv(t) ==
    /\ task[t].pc = "sr_wait"
    /\ task[t].slot.st # "pending"
    /\ LET rec == task[t]
           c == rec.ch
       IN  IF ~ExpectedResponse(rec)
           THEN /\ task' = [task EXCEPT ![t] = Finish(t, rec, "err")]
                /\ UNCHANGED <<is_open, chanHandles, mgmt, closeReturnedOk>>
           ELSE IF rec.op = "close"
           THEN /\ is_open' = FALSE
                /\ closeReturnedOk' = TRUE
                /\ task' = [task EXCEPT ![t] = Finish(t, rec, "ok")]
                /\ UNCHANGED <<chanHandles, mgmt>>
           ELSE IF rec.op = "open_channel"
           THEN /\ chanHandles' = chanHandles \cup {c}
                /\ task' = [task EXCEPT ![t] = Finish(t, rec, "ok")]
                /\ UNCHANGED <<is_open, mgmt, closeReturnedOk>>
           ELSE IF rec.op = "chan_close"
           THEN /\ chanHandles' = chanHandles \ {c}
                /\ IF ~readerRunning
                   THEN /\ task' = [task EXCEPT ![t] = Finish(t, rec, "err")]
                        /\ UNCHANGED mgmt
                   ELSE /\ Len(mgmt) < MgmtCap
                        /\ mgmt' = Append(mgmt, UnregisterChannelResourceCmd(t, c))
                        /\ task' = [task EXCEPT ![t] =
                                       [rec EXCEPT !.pc = "un_ack",
                                                   !.ack = "pending",
                                                   !.slot = EmptySlot]]
                /\ UNCHANGED <<is_open, closeReturnedOk>>
           ELSE /\ task' = [task EXCEPT ![t] = Finish(t, rec, "ok")]
                /\ UNCHANGED <<is_open, chanHandles, mgmt, closeReturnedOk>>
    /\ UNCHANGED <<hasHandle, outgoing, regVars, netVars, runVars,
                   closeWritten, lostReply, reordered, everRemoved>>
    /\ UNCHANGED <<calls, faults, hs>>

\* The channel facade's close: the resource has been unregistered.
unregister_ack(t) ==
    /\ task[t].pc = "un_ack"
    /\ task[t].ack # "pending"
    /\ LET r == IF task[t].ack = "ok" THEN "ok" ELSE "err"
       IN  /\ task' = [task EXCEPT ![t] = Finish(t, task[t], r)]
    /\ UNCHANGED <<is_open, hasHandle, mgmt, outgoing, regVars, netVars,
                   runVars, chanHandles, closeWritten, closeReturnedOk,
                   lostReply, reordered, everRemoved>>
    /\ UNCHANGED <<calls, faults, hs>>

\* The channel facade (section 4.7): a synchronous method of an open channel,
\* built on the RPC pattern of section 4.6.
chan_rpc_call(t, c, k) ==
    /\ t \in Users
    /\ task[t].pc = "idle"
    /\ c \in chanHandles
    /\ register_responder(t, Begin(task[t], "chan_rpc"), c, k)
    /\ UNCHANGED <<is_open, hasHandle, outgoing, regVars, netVars, runVars,
                   chanHandles, closeWritten, closeReturnedOk,
                   lostReply, reordered, everRemoved>>
    /\ Budget(t)

\* The channel facade (section 4.7): close of an open channel.
chan_close_call(t, c) ==
    /\ t \in Users
    /\ task[t].pc = "idle"
    /\ c \in chanHandles
    /\ register_responder(t, Begin(task[t], "chan_close"), c, "CloseChannelOk")
    /\ UNCHANGED <<is_open, hasHandle, outgoing, regVars, netVars, runVars,
                   chanHandles, closeWritten, closeReturnedOk,
                   lostReply, reordered, everRemoved>>
    /\ Budget(t)

Detached(t) == NumUsers + t

\* connection.rs:328: Drop loads is_open.
drop_load(t) ==
    /\ t \in Users
    /\ task[t].pc = "idle"
    /\ hasHandle[t]
    /\ IF is_open
       THEN /\ task' = [task EXCEPT ![t].pc = "drop_store"]
            /\ UNCHANGED hasHandle
       ELSE /\ hasHandle' = [hasHandle EXCEPT ![t] = FALSE]
            /\ UNCHANGED task
    /\ UNCHANGED <<is_open, mgmt, outgoing, regVars, netVars, runVars,
                   chanHandles, closeWritten, closeReturnedOk,
                   lostReply, reordered, everRemoved>>
    /\ Budget(t)

\* connection.rs:329-335: Drop stores false and spawns the task that calls
\* close() on a clone.
drop_store(t) ==
    /\ t \in Users
    /\ task[t].pc = "drop_store"
    /\ is_open' = FALSE
    /\ hasHandle' = [hasHandle EXCEPT ![t] = FALSE]
    /\ task' = [task EXCEPT ![t].pc = "idle",
                            ![Detached(t)].pc = "spawned"]
    /\ UNCHANGED <<mgmt, outgoing, regVars, netVars, runVars, chanHandles,
                   closeWritten,
                   closeReturnedOk, lostReply, reordered, everRemoved>>
    /\ UNCHANGED <<calls, faults, hs>>

\* A user task drops the future of the call it is awaiting (section 5,
\* cancellation): its one-shot receivers are dropped with it.
Cancel(t) ==
    /\ t \in Users
    /\ task[t].pc \in {"rr_ack", "sr_wait", "rcr_ack", "un_ack"}
    /\ task' = [task EXCEPT ![t] = IdleTask]
    /\ responders' = Abandoned(t)
    /\ mgmt' = AbandonedCmds(t)
    /\ UNCHANGED <<is_open, hasHandle, outgoing, channels, next_id, callback,
                   netVars, runVars, chanHandles, closeWritten,
                   closeReturnedOk, lostReply, reordered, everRemoved>>
    /\ UNCHANGED <<calls, faults, hs>>

\* ----------------------------------------------------------- ReaderHandler
Min(S) == CHOOSE x \in S : \A y \in S : x <= y

\* Section 4.4: scan next_id..=channel_max, then 1..next_id, for a free slot.
AllocateId ==
    LET free == UserIds \ channels
        upper == {i \in free : i >= next_id}
    IN  IF free = {} THEN NoId
        ELSE IF upper # {} THEN Min(upper) ELSE Min(free)

\* Section 4.4: next_id becomes found+1 mod (channel_max+1), clamped to >= 1.
NextHint(found) ==
    LET n == (found + 1) % (ChannelMax + 1)
    IN  IF n < 1 THEN 1 ELSE n

\* The acker of a command answers; a dropped receiver never sees it.
Ack(tk, cmd, a, v) ==
    IF cmd.live /\ cmd.task # NoTask
    THEN [tk EXCEPT ![cmd.task].ack = a, ![cmd.task].ackv = v]
    ELSE tk

\* Mutant: the response is dropped instead of being handed to its waiter.
Fulfil_Dropped(tk, r, f) == tk

\* Section 4.3: a waiter is fulfilled with a frame; if its slot was dropped
\* the response is discarded silently.
Fulfil(tk, r, f) ==
    IF r.live THEN [tk EXCEPT ![r.task].slot = FullSlot(f)] ELSE tk

\* Mutant: the waiters of a closed channel are left pending.
FailAll_None(tk, rs) == tk

\* The waiters rs are failed: their senders are dropped with an error.
FailAll(tk, rs) ==
    [t \in Tasks |->
        IF \E r \in rs : r.task = t /\ r.live
        THEN [tk[t] EXCEPT !.slot = ClosedSlot]
        ELSE tk[t]]

\* Section 4.3, management commands.
reader_mgmt ==
    /\ readerRunning
    /\ mgmt # <<>>
    /\ mgmt' = Tail(mgmt)
    /\ LET cmd == Head(mgmt)
           c == cmd.channel_id
       IN  CASE cmd.type = "RegisterChannelResource" ->
                  LET id == IF c = NoId THEN AllocateId
                            ELSE IF c \in channels THEN NoId ELSE c
                  IN  /\ channels' = IF id = NoId THEN channels
                                     ELSE channels \cup {id}
                      /\ next_id' = IF c = NoId /\ id # NoId
                                    THEN NextHint(id) ELSE next_id
                      /\ task' = Ack(task, cmd, "ok", id)
                      /\ UNCHANGED <<responders, callback, everRemoved>>
             [] cmd.type = "UnregisterChannelResource" ->
                  LET rs == {r \in responders : r.ch = c}
                  IN  /\ channels' = channels \ {c}
                      /\ responders' = responders \ rs
                      /\ task' = Ack(FailAll(task, rs), cmd, "ok", c)
                      /\ everRemoved' = TRUE
                      /\ UNCHANGED <<next_id, callback>>
             [] cmd.type = "RegisterResponder" ->
                  LET ok == /\ c \in channels
                            /\ ~\E r \in responders : r.ch = c /\ r.key = cmd.key
                  IN  /\ responders' =
                            IF ok
                            THEN responders \cup
                                 {[ch |-> c, key |-> cmd.key,
                                   task |-> cmd.task, live |-> cmd.live]}
                            ELSE responders
                      /\ task' = Ack(task, cmd, IF ok THEN "ok" ELSE "err", NoId)
                      /\ UNCHANGED <<channels, next_id, callback, everRemoved>>
             [] OTHER ->
                  /\ callback' = TRUE
                  /\ UNCHANGED <<channels, responders, next_id, task, everRemoved>>
    /\ UNCHANGED <<is_open, hasHandle, outgoing, netVars, runVars, chanHandles,
                   closeWritten, closeReturnedOk, lostReply, reordered>>
    /\ UNCHANGED <<calls, faults, hs>>

\* ReaderHandler exits: the shutdown is broadcast, conn_mgmt_rx and the
\* registry are dropped with it (queued commands lose their ackers, the
\* remaining waiters rs are failed), and so is the clone of Connection that
\* connection.rs:263 gave it, whose Drop (connection.rs:326-338) runs.
ReaderExit(tk, rs, open_now) ==
    /\ readerRunning' = FALSE
    /\ shutdown' = TRUE
    /\ mgmt' = <<>>
    /\ inbound' = <<>>
    /\ channels' = {}
    /\ responders' = {}
    /\ next_id' = 1
    /\ callback' = FALSE
    /\ is_open' = FALSE
    /\ task' = [t \in Tasks |->
          LET r0 == tk[t]
              r1 == IF \E i \in 1 .. Len(mgmt) : mgmt[i].task = t /\ mgmt[i].live
                    THEN [r0 EXCEPT !.ack = "dropped"] ELSE r0
              r2 == IF \E r \in rs : r.task = t /\ r.live
                    THEN [r1 EXCEPT !.slot = ClosedSlot] ELSE r1
          IN  IF t = ReaderDetached /\ open_now
              THEN [r2 EXCEPT !.pc = "spawned"] ELSE r2]

Replies == {"CloseOk", "OpenChannelOk", "CloseChannelOk"} \cup RpcKeys

\* ReaderHandler replies on the outgoing queue it holds a sender of.
ReaderReply(f) ==
    /\ writerRunning => Len(outgoing) < OutCap
    /\ outgoing' = IF writerRunning THEN Append(outgoing, f) ELSE outgoing

\* Section 4.3, frame routing.
reader_frame ==
    /\ readerRunning
    /\ inbound # <<>>
    /\ LET f == Head(inbound)
           c == f.ch
           ws == {r \in responders : r.ch = c /\ r.key = f.m}
       IN  IF c = CONN_DEFAULT_CHANNEL /\ f.m = "Close"
           THEN /\ ReaderReply(Frame(c, "CloseOk", NoTask))
                /\ ReaderExit(task, responders, FALSE)
                /\ UNCHANGED <<chanHandles, lostReply, everRemoved>>
           ELSE IF c # CONN_DEFAULT_CHANNEL /\ f.m = "CloseChannel"
           THEN LET rs == {r \in responders : r.ch = c}
                IN  /\ ReaderReply(Frame(c, "CloseChannelOk", NoTask))
                    /\ task' = FailAll(task, rs)
                    /\ responders' = responders \ rs
                    /\ channels' = channels \ {c}
                    /\ chanHandles' = chanHandles \ {c}
                    /\ inbound' = Tail(inbound)
                    /\ everRemoved' = TRUE
                    /\ UNCHANGED <<is_open, mgmt, next_id, callback, lostReply,
                                   readerRunning, shutdown>>
           ELSE IF ws # {}
           THEN LET r == CHOOSE x \in ws : TRUE
                IN  /\ IF c = CONN_DEFAULT_CHANNEL /\ f.m = "CloseOk"
                       THEN ReaderExit(Fulfil(task, r, f), responders \ {r}, is_open)
                       ELSE /\ task' = Fulfil(task, r, f)
                            /\ responders' = responders \ {r}
                            /\ inbound' = Tail(inbound)
                            /\ UNCHANGED <<is_open, mgmt, channels, next_id,
                                           callback, readerRunning, shutdown>>
                    /\ UNCHANGED <<outgoing, chanHandles, lostReply,
                                   everRemoved>>
           ELSE /\ inbound' = Tail(inbound)
                /\ lostReply' = IF f.m \in Replies THEN lostReply \cup {f.m}
                                ELSE lostReply
                /\ UNCHANGED <<is_open, mgmt, outgoing, task, regVars,
                               readerRunning, shutdown, chanHandles, everRemoved>>
    /\ UNCHANGED <<hasHandle, wire, brokerOpen, brokerConn, writerRunning,
                   closeWritten, closeReturnedOk, reordered>>
    /\ UNCHANGED <<calls, faults, hs>>

\* Section 5, fatal shutdown: the read half of the socket fails.
reader_io_error ==
    /\ readerRunning
    /\ ReaderExit(task, responders, is_open)
    /\ UNCHANGED <<hasHandle, outgoing, wire, brokerOpen, brokerConn,
                   writerRunning, chanHandles, closeWritten, closeReturnedOk,
                   lostReply, reordered, everRemoved>>
    /\ Fault

\* ----------------------------------------------------------- WriterHandler
\* Section 4.2: the next queued frame is written to the socket.
writer_write ==
    /\ writerRunning
    /\ outgoing # <<>>
    /\ Len(wire) < WireCap
    /\ wire' = Append(wire, Head(outgoing))
    /\ outgoing' = Tail(outgoing)
    /\ closeWritten' = (closeWritten \/
                        (Head(outgoing).ch = CONN_DEFAULT_CHANNEL
                         /\ Head(outgoing).m = "Close"))
    /\ UNCHANGED <<is_open, hasHandle, task, mgmt, inbound, regVars,
                   brokerOpen, brokerConn, runVars, chanHandles,
                   closeReturnedOk, lostReply, reordered, everRemoved>>
    /\ UNCHANGED <<calls, faults, hs>>

WriterExit ==
    /\ writerRunning' = FALSE
    /\ outgoing' = <<>>
    /\ UNCHANGED <<is_open, hasHandle, task, mgmt, regVars, netVars,
                   readerRunning, shutdown, chanHandles, closeWritten,
                   closeReturnedOk, lostReply, reordered, everRemoved>>

\* Section 4.2: on the shutdown broadcast the writer drains what it can within
\* its grace period and exits; outgoing_rx is dropped.
writer_shutdown ==
    /\ writerRunning
    /\ shutdown
    /\ UNCHANGED <<calls, faults, hs>>
    /\ WriterExit

\* Section 4.2: an I/O error of the write half is fatal to the writer.
writer_io_error ==
    /\ writerRunning
    /\ ~shutdown
    /\ Fault
    /\ WriterExit

\* ------------------------------------------------------------- the broker
RemoveAt(q, i) == [j \in 1 .. Len(q) - 1 |-> IF j < i THEN q[j] ELSE q[j + 1]]

\* A frame sent by the broker reaches the read half while it is open.
ToClient(f) ==
    /\ Len(inbound) < InCap
    /\ inbound' = IF readerRunning THEN Append(inbound, f) ELSE inbound

\* The broker takes one of the frames it has received, in any order, and
\* answers it: CloseOk to Connection.Close, OpenOk (or, refusing, Channel.Close)
\* to Channel.Open, CloseOk to Channel.Close, the method's Ok to a synchronous
\* method of a channel it holds open.
broker_reply(i, accept) ==
    /\ i \in 1 .. Len(wire)
    /\ wire' = RemoveAt(wire, i)
    /\ reordered' = (reordered \/
                     \E j \in 1 .. i - 1 :
                        /\ wire[j].ch = wire[i].ch
                        /\ wire[j].m \notin Replies
                        /\ wire[i].m \notin Replies)
    /\ LET f == wire[i]
           c == f.ch
       IN  IF ~brokerConn \/ f.m \in Replies
           THEN /\ accept
                /\ UNCHANGED <<inbound, brokerOpen, brokerConn>>
           ELSE IF f.m = "Close"
           THEN /\ accept
                /\ ToClient(Frame(c, "CloseOk", f.by))
                /\ brokerConn' = FALSE
                /\ brokerOpen' = {}
           ELSE IF f.m = "OpenChannel"
           THEN /\ ToClient(Frame(c, IF accept THEN "OpenChannelOk"
                                     ELSE "CloseChannel", f.by))
                /\ brokerOpen' = IF accept THEN brokerOpen \cup {c}
                                 ELSE brokerOpen \ {c}
                /\ UNCHANGED brokerConn
           ELSE IF f.m = "CloseChannel"
           THEN /\ accept
                /\ ToClient(Frame(c, "CloseChannelOk", f.by))
                /\ brokerOpen' = brokerOpen \ {c}
                /\ UNCHANGED brokerConn
           ELSE /\ accept
                /\ IF c \in brokerOpen
                   THEN ToClient(Frame(c, ReplyOf(f.m), f.by))
                   ELSE UNCHANGED inbound
                /\ UNCHANGED <<brokerOpen, brokerConn>>
    /\ UNCHANGED <<is_open, hasHandle, task, mgmt, outgoing, regVars, runVars,
                   chanHandles, closeWritten, closeReturnedOk,
                   lostReply, everRemoved>>
    /\ UNCHANGED <<calls, faults, hs>>

\* Section 5, server-initiated shutdown of a channel.
server_channel_close(c) ==
    /\ brokerConn
    /\ c \in brokerOpen
    /\ ToClient(Frame(c, "CloseChannel", NoTask))
    /\ brokerOpen' = brokerOpen \ {c}
    /\ UNCHANGED <<is_open, hasHandle, task, mgmt, outgoing, wire, regVars,
                   brokerConn, runVars, chanHandles, closeWritten,
                   closeReturnedOk, lostReply, reordered, everRemoved>>
    /\ UNCHANGED <<calls, faults, hs>>

\* Section 5, server-initiated shutdown of the connection.
server_connection_close ==
    /\ brokerConn
    /\ ToClient(Frame(CONN_DEFAULT_CHANNEL, "Close", NoTask))
    /\ brokerConn' = FALSE
    /\ brokerOpen' = {}
    /\ UNCHANGED <<is_open, hasHandle, task, mgmt, outgoing, wire, regVars,
                   runVars, chanHandles, closeWritten, closeReturnedOk,
                   lostReply, reordered, everRemoved>>
    /\ Fault

\* The caller takes the result of its call and is ready for the next one.
resume(t) ==
    /\ t \in Users
    /\ task[t].pc = "returned"
    /\ task' = [task EXCEPT ![t] = IdleTask]
    /\ UNCHANGED <<is_open, hasHandle, mgmt, outgoing, regVars, netVars,
                   runVars, chanHandles, closeWritten, closeReturnedOk,
                   lostReply, reordered, everRemoved, calls, faults, hs>>

\* ------------------------------------------------------- Connection::open
\* The task that calls Connection::open.
Opener == Min(Users)

TuneVals == 0 .. MaxTune
TuneRecs == [channel_max : TuneVals, frame_max : TuneVals, heartbeat : TuneVals]
NoTune == [channel_max |-> NoId, frame_max |-> NoId, heartbeat |-> NoId]

\* open() before its first step, against a broker that will ask for n rounds
\* of Connection.Secure and propose the tune values srv.
Unopened(n, srv) ==
    [pc |-> "start", out |-> <<>>, inb |-> "none", secure |-> n, srv |-> srv,
     tune_ok |-> NoTune, channel_max |-> NoId, log |-> <<>>, err |-> "none"]

\* open() has returned the handle (connection.rs:149).
Established ==
    LET t == [channel_max |-> ChannelMax, frame_max |-> ChannelMax,
              heartbeat |-> ChannelMax]
    IN  [pc |-> "open", out |-> <<>>, inb |-> "none", secure |-> 0, srv |-> t,
         tune_ok |-> t, channel_max |-> ChannelMax,
         log |-> <<"ProtocolHeader", "StartOk", "TuneOk", "Open">>,
         err |-> "none"]

\* What open() leaves alone until it spawns the handlers.
openFrame == <<is_open, hasHandle, task, mgmt, outgoing, wire, inbound,
               channels, responders, next_id, callback, readerRunning,
               writerRunning, shutdown, chanHandles, brokerOpen, brokerConn,
               closeWritten, closeReturnedOk, lostReply, reordered,
               everRemoved, calls>>

\* connection.write / write_frame: the frame goes to the transport.
OpenWrites(h, frame, pc) ==
    [h EXCEPT !.out = Append(h.out, frame), !.log = Append(h.log, frame),
              !.pc = pc]

\* get_expected_method!: the frame read is the expected one, or open()
\* returns ConnectionOpenError(stage) and the transport is dropped.
OpenReads(h, expected, pc, stage) ==
    IF h.inb = expected
    THEN [h EXCEPT !.inb = "none", !.pc = pc]
    ELSE [h EXCEPT !.inb = "none", !.out = <<>>, !.pc = "failed", !.err = stage]

\* connection.rs:67: SplitConnection::open.
open_connect ==
    /\ hs.pc = "start"
    /\ hs' = [hs EXCEPT !.pc = "connected"]
    /\ UNCHANGED <<openFrame, faults>>

\* connection.rs:70: the protocol header is written.
open_write_header ==
    /\ hs.pc = "connected"
    /\ hs' = OpenWrites(hs, "ProtocolHeader", "await_start")
    /\ UNCHANGED <<openFrame, faults>>

\* connection.rs:73-78: Start is expected.
open_read_start ==
    /\ hs.pc = "await_start"
    /\ hs.inb # "none"
    /\ hs' = OpenReads(hs, "Start", "got_start", "start")
    /\ UNCHANGED <<openFrame, faults>>

\* connection.rs:81-84: StartOk is written.
open_write_start_ok ==
    /\ hs.pc = "got_start"
    /\ hs' = OpenWrites(hs, "StartOk", "await_tune")
    /\ UNCHANGED <<openFrame, faults>>

\* connection.rs:87-92: the next frame is expected to be Tune.
open_read_tune ==
    /\ hs.pc = "await_tune"
    /\ hs.inb # "none"
    /\ hs' = OpenReads(hs, "Tune", "got_tune", "tune")
    /\ UNCHANGED <<openFrame, faults>>

\* connection.rs:94-97: TuneOk takes the three values of the server's Tune.
TuneOkOf(tune) ==
    [channel_max |-> tune.channel_max, frame_max |-> tune.frame_max,
     heartbeat |-> tune.heartbeat]

\* connection.rs:94-103: TuneOk is built and written; channel_max is kept.
open_write_tune_ok ==
    /\ hs.pc = "got_tune"
    /\ LET tune_ok == TuneOkOf(hs.srv)
       IN  hs' = [OpenWrites(hs, "TuneOk", "tuned") EXCEPT
                     !.tune_ok = tune_ok,
                     !.channel_max = tune_ok.channel_max]
    /\ UNCHANGED <<openFrame, faults>>

\* connection.rs:106-107: Open is written.
open_write_open ==
    /\ hs.pc = "tuned"
    /\ hs' = OpenWrites(hs, "Open", "await_open_ok")
    /\ UNCHANGED <<openFrame, faults>>

\* connection.rs:110-115: OpenOk is expected.
open_read_open_ok ==
    /\ hs.pc = "await_open_ok"
    /\ hs.inb # "none"
    /\ hs' = OpenReads(hs, "OpenOk", "got_open_ok", "open")
    /\ UNCHANGED <<openFrame, faults>>

\* connection.rs:117-133: the queues and the shared state are created with
\* is_open = true, and spawn_handlers starts ReaderHandler and WriterHandler.
open_spawn_handlers ==
    /\ hs.pc = "got_open_ok"
    /\ hs' = [hs EXCEPT !.pc = "spawned"]
    /\ is_open' = TRUE
    /\ readerRunning' = TRUE
    /\ writerRunning' = TRUE
    /\ UNCHANGED <<hasHandle, task, mgmt, outgoing, wire, inbound, regVars,
                   shutdown, chanHandles, brokerOpen, brokerConn,
                   closeWritten, closeReturnedOk, lostReply, reordered,
                   everRemoved, calls, faults>>

\* connection.rs:149 with 326-338: open() returns an error after the shared
\* state exists: new_amq_conn is dropped, and its Drop runs.
OpenFailsLate(tk) ==
    /\ hs' = [hs EXCEPT !.pc = "failed", !.err = "register"]
    /\ is_open' = FALSE
    /\ task' = IF is_open
               THEN [tk EXCEPT ![Opener] = IdleTask,
                               ![Detached(Opener)].pc = "spawned"]
               ELSE [tk EXCEPT ![Opener] = IdleTask]
    /\ UNCHANGED hasHandle

\* connection.rs:136-147 with 216-229: the resource of the default channel is
\* registered by a command to ReaderHandler.
open_register_default ==
    /\ hs.pc = "spawned"
    /\ IF ~readerRunning
       THEN /\ OpenFailsLate(task)
            /\ UNCHANGED mgmt
       ELSE /\ Len(mgmt) < MgmtCap
            /\ mgmt' = Append(mgmt, RegisterChannelResourceCmd(Opener,
                                                               CONN_DEFAULT_CHANNEL))
            /\ task' = [task EXCEPT ![Opener] =
                           [Begin(task[Opener], "open") EXCEPT
                               !.pc = "open_ack", !.ack = "pending"]]
            /\ hs' = [hs EXCEPT !.pc = "registering"]
            /\ UNCHANGED <<is_open, hasHandle>>
    /\ UNCHANGED <<outgoing, regVars, netVars, runVars, chanHandles,
                   closeWritten, closeReturnedOk, lostReply, reordered,
                   everRemoved, calls, faults>>

\* connection.rs:145-149 with 231-242: the acker has answered.  With an id
\* open() returns the handle; None is ConnectionOpenError.
open_finish ==
    /\ hs.pc = "registering"
    /\ task[Opener].pc = "open_ack"
    /\ task[Opener].ack # "pending"
    /\ IF register_channel_resource_result(task[Opener]) = NoId
       THEN OpenFailsLate(task)
       ELSE /\ hs' = [hs EXCEPT !.pc = "open"]
            /\ task' = [task EXCEPT ![Opener] = IdleTask]
            /\ hasHandle' = [t \in Users |-> TRUE]
            /\ UNCHANGED is_open
    /\ UNCHANGED <<mgmt, outgoing, regVars, netVars, runVars, chanHandles,
                   closeWritten, closeReturnedOk, lostReply, reordered,
                   everRemoved, calls, faults>>

HandshakePcs == {"connected", "await_start", "got_start", "await_tune",
                 "got_tune", "tuned", "await_open_ok", "got_open_ok"}

\* A read or a write of the transport fails: `?` returns the error.
open_io_error ==
    /\ hs.pc \in HandshakePcs \cup {"start"}
    /\ faults < MaxFaults
    /\ faults' = faults + 1
    /\ hs' = [hs EXCEPT !.pc = "failed", !.err = "io", !.inb = "none",
                        !.out = <<>>]
    /\ UNCHANGED openFrame

\* The broker's side of the handshake (AMQP 0-9-1, section 4.1 of the design
\* document): Start answers the protocol header; Secure, as long as the
\* broker wants another round, or else Tune answers StartOk and SecureOk;
\* OpenOk answers Open.
broker_handshake ==
    /\ hs.out # <<>>
    /\ hs.inb = "none"
    /\ LET f == Head(hs.out)
           h == [hs EXCEPT !.out = Tail(hs.out)]
       IN  hs' = CASE f = "ProtocolHeader" -> [h EXCEPT !.inb = "Start"]
                   [] f \in {"StartOk", "SecureOk"} ->
                        IF hs.secure > 0
                        THEN [h EXCEPT !.inb = "Secure", !.secure = hs.secure - 1]
                        ELSE [h EXCEPT !.inb = "Tune"]
                   [] f = "Open" -> [h EXCEPT !.inb = "OpenOk"]
                   [] OTHER -> h
    /\ UNCHANGED <<openFrame, faults>>

\* A broker that does not follow the protocol sends something else.
broker_unexpected ==
    /\ hs.pc \in HandshakePcs
    /\ hs.inb \notin {"none", "Junk"}
    /\ faults < MaxFaults
    /\ faults' = faults + 1
    /\ hs' = [hs EXCEPT !.inb = "Junk"]
    /\ UNCHANGED openFrame

\* ------------------------------------------------------- the specification
\* The state Connection::open returns in (connection.rs:117-149): is_open is
\* true, both handlers run, the default channel's resource is registered;
\* followed by k successful calls of open_channel with nothing else going on,
\* which leave channels 1..k registered, open at the broker and in the hands
\* of the user, and the allocation hint behind k.
Opened(k) ==
    /\ channels = {CONN_DEFAULT_CHANNEL} \cup (1 .. k)
    /\ chanHandles = 1 .. k
    /\ brokerOpen = 1 .. k
    /\ next_id = NextHint(k)

Quiescent ==
    /\ is_open = TRUE
    /\ hasHandle = [t \in Users |-> TRUE]
    /\ task = [t \in Tasks |-> IF t \in Users THEN IdleTask ELSE NotSpawned]
    /\ mgmt = <<>>
    /\ outgoing = <<>>
    /\ wire = <<>>
    /\ inbound = <<>>
    /\ responders = {}
    /\ callback = FALSE
    /\ readerRunning = TRUE
    /\ writerRunning = TRUE
    /\ shutdown = FALSE
    /\ brokerConn = TRUE
    /\ closeWritten = FALSE
    /\ closeReturnedOk = FALSE
    /\ lostReply = {}
    /\ reordered = FALSE
    /\ everRemoved = FALSE
    /\ calls = 0
    /\ faults = 0
    /\ hs = Established

Init == Quiescent /\ \E k \in 0 .. ChannelMax : Opened(k)

InitFresh == Quiescent /\ Opened(0)

Facade ==
    \/ \E t \in Tasks : close_call(t)
    \/ \E t \in Users : open_channel_call(t)
    \/ \E t \in Users : open_channel_registered(t)
    \/ \E t \in Users : register_callback(t)
    \/ \E t \in Tasks : request_send(t)
    \/ \E t \in Tasks : response_recv(t)
    \/ \E t \in Users : unregister_ack(t)
    \/ \E t \in Users, c \in UserIds, k \in RpcKeys : chan_rpc_call(t, c, k)
    \/ \E t \in Users, c \in UserIds : chan_close_call(t, c)
    \/ \E t \in Users : drop_load(t)
    \/ \E t \in Users : drop_store(t)
    \/ \E t \in Users : resume(t)

Handlers ==
    \/ reader_mgmt
    \/ reader_frame
    \/ writer_write
    \/ writer_shutdown

Broker ==
    \/ \E i \in 1 .. WireCap, accept \in BOOLEAN : broker_reply(i, accept)
    \/ \E c \in UserIds : server_channel_close(c)

Next ==
    \/ Facade
    \/ Handlers
    \/ Broker
    \/ \E t \in Users : Cancel(t)

\* The environment may also shut the connection down (section 5).
Faults ==
    \/ server_connection_close
    \/ reader_io_error
    \/ writer_io_error

NextFaults == Next \/ Faults

\* A connection with some channels open, against a broker that answers and
\* may close channels, on a transport that does not fail.
Spec == Init /\ [][Next]_vars

\* A fresh connection whose transport may fail and whose broker may close it.
SpecFaults == InitFresh /\ [][NextFaults]_vars

\* Fair scheduling: every spawned or awaiting task that can take its next step
\* takes it, ReaderHandler serves both of its queues, WriterHandler writes,
\* and the broker answers what it has received.  Whether a user begins a call,
\* drops a handle or drops a future is left open.
Fairness ==
    /\ \A t \in Tasks : WF_vars(close_call(t) /\ IsDetached(t))
    /\ \A t \in Tasks : WF_vars(request_send(t))
    /\ \A t \in Tasks : WF_vars(response_recv(t))
    /\ \A t \in Users : WF_vars(drop_store(t))
    /\ WF_vars(reader_mgmt)
    /\ WF_vars(reader_frame)
    /\ WF_vars(writer_write)
    /\ WF_vars(writer_shutdown)
    /\ WF_vars(\E i \in 1 .. WireCap, accept \in BOOLEAN : broker_reply(i, accept))

\* A fresh connection on a transport that does not fail, fairly scheduled,
\* against a broker that answers.
SpecLive == InitFresh /\ [][Next]_vars /\ Fairness

\* No connection yet: Connection::open is about to be called.
InitOpen ==
    /\ is_open = FALSE
    /\ hasHandle = [t \in Users |-> FALSE]
    /\ task = [t \in Tasks |-> IF t \in Users THEN IdleTask ELSE NotSpawned]
    /\ mgmt = <<>>
    /\ outgoing = <<>>
    /\ wire = <<>>
    /\ inbound = <<>>
    /\ channels = {}
    /\ responders = {}
    /\ next_id = 1
    /\ callback = FALSE
    /\ readerRunning = FALSE
    /\ writerRunning = FALSE
    /\ shutdown = FALSE
    /\ chanHandles = {}
    /\ brokerOpen = {}
    /\ brokerConn = TRUE
    /\ closeWritten = FALSE
    /\ closeReturnedOk = FALSE
    /\ lostReply = {}
    /\ reordered = FALSE
    /\ everRemoved = FALSE
    /\ calls = 0
    /\ faults = 0
    /\ \E n \in 0 .. MaxSecure, srv \in TuneRecs : hs = Unopened(n, srv)

Handshake ==
    \/ open_connect
    \/ open_write_header
    \/ open_read_start
    \/ open_write_start_ok
    \/ open_read_tune
    \/ open_write_tune_ok
    \/ open_write_open
    \/ open_read_open_ok
    \/ open_spawn_handlers
    \/ open_register_default
    \/ open_finish

NextOpen ==
    \/ Handshake
    \/ broker_handshake
    \/ broker_unexpected
    \/ open_io_error
    \/ reader_mgmt
    \/ reader_io_error
    \/ writer_shutdown
    \/ \E t \in Tasks : close_call(t) /\ IsDetached(t)

\* Connection::open from its first step, against a broker that may ask for
\* Secure rounds, on a transport that may fail.
SpecOpen == InitOpen /\ [][NextOpen]_vars

\* The facade with its public setter of the flag (connection.rs:187-189).
NextSetter ==
    \/ Next
    \/ \E t \in Users, flag \in BOOLEAN : set_open_state(t, flag)

SpecSetter == InitFresh /\ [][NextSetter]_vars

\* Fair scheduling of the callers' own continuations as well: a caller that
\* has its ack takes its next step.
FairnessCallers ==
    /\ Fairness
    /\ \A t \in Users : WF_vars(open_channel_registered(t))
    /\ \A t \in Users : WF_vars(unregister_ack(t))

\* A fresh connection, fairly scheduled, whose transport may fail and whose
\* broker may close it.
SpecFaultsLive == InitFresh /\ [][NextFaults]_vars /\ FairnessCallers

\* The round trip of the tests (connection.rs:345-398): a channel is opened,
\* closed, and then the connection is closed or its handle dropped.  The
\* connection is open at the start, with the channels opened so far; the
\* holders of the clones take turns, one call at a time.
InitRound == Init

OthersIdle(t) == \A u \in Users \ {t} : task[u].pc = "idle"

RoundTrip(t) ==
    /\ OthersIdle(t)
    /\ \/ chanHandles = {} /\ calls = 0 /\ open_channel_call(t)
       \/ \E c \in UserIds : chan_close_call(t, c)
       \/ chanHandles = {} /\ calls > 0 /\ close_call(t)
       \/ chanHandles = {} /\ calls > 0 /\ drop_load(t)

NextRound ==
    \/ \E t \in Users : RoundTrip(t)
    \/ \E t \in Users : open_channel_registered(t)
    \/ \E t \in Users : unregister_ack(t)
    \/ \E t \in Users : drop_store(t)
    \/ \E t \in Users : resume(t)
    \/ \E t \in Tasks : close_call(t) /\ IsDetached(t)
    \/ \E t \in Tasks : request_send(t)
    \/ \E t \in Tasks : response_recv(t)
    \/ Handlers
    \/ \E i \in 1 .. WireCap : broker_reply(i, TRUE)

\* The round trip goes on, and everything else is scheduled fairly.
FairnessRound ==
    /\ FairnessCallers
    /\ WF_vars(\E t \in Users : RoundTrip(t))
    /\ \A t \in Users : WF_vars(resume(t))

SpecRound == InitRound /\ [][NextRound]_vars /\ FairnessRound

\* ------------------------------------------------------------------ claims
Elems(q) == {q[i] : i \in 1 .. Len(q)}

\* The requests of close() and open_channel that are queued or on the wire.
RequestsInFlight ==
    {f \in Elems(outgoing) \cup Elems(wire) : f.m \in {"Close", "OpenChannel"}}

HasWaiter(c, k) == \E r \in responders : r.ch = c /\ r.key = k

\* C1 (as stated): in every reachable state in which the request frame of
\* close() or open_channel is in the outbound queue or on the wire, a waiter
\* for (channel, expected response) is present in the registry.
C1_WaiterWhileRequestInFlight ==
    \A f \in RequestsInFlight : HasWaiter(f.ch, ReplyOf(f.m))

\* C1 (amended): while ReaderHandler runs, every request frame of close() or
\* open_channel that is in the outbound queue or on the wire has its waiter
\* in the registry, and no CloseOk or OpenChannelOk was ever routed while its
\* waiter was absent.
C1_WaiterBeforeRequest ==
    /\ readerRunning => C1_WaiterWhileRequestInFlight
    /\ lostReply \cap {"CloseOk", "OpenChannelOk"} = {}

\* C1 witness: ReaderHandler runs, a Channel.Open request written by
\* open_channel is on the wire and the waiter it registered is in place.
C1_Witness ==
    /\ readerRunning
    /\ \E f \in Elems(wire) :
          /\ f.m = "OpenChannel"
          /\ task[f.by].op = "open_channel"
          /\ task[f.by].pc = "sr_wait"
          /\ \E r \in responders :
                r.ch = f.ch /\ r.key = "OpenChannelOk" /\ r.task = f.by

\* C2: a caller's one-shot slot is only ever fulfilled with a frame of the
\* channel and method it registered, sent in answer to its own request.
C2_ResponsesNeverCross ==
    \A t \in Tasks :
        task[t].slot.st = "full" =>
            /\ task[t].slot.fr.m = task[t].key
            /\ task[t].slot.fr.ch = task[t].ch
            /\ task[t].slot.fr.by = t

\* C2 witness: two tasks have issued different methods on the same channel,
\* the broker has answered them out of order, and one of them holds its
\* response while the other still waits.
C2_Witness ==
    /\ reordered
    /\ \E t, u \in Users :
          /\ t # u
          /\ task[t].op = "chan_rpc" /\ task[u].op = "chan_rpc"
          /\ task[t].ch = task[u].ch
          /\ task[t].key # task[u].key
          /\ task[t].pc = "sr_wait" /\ task[t].slot.st = "full"
          /\ task[u].pc = "sr_wait" /\ task[u].slot.st = "pending"

\* C3: a close() that is called while is_open is false returns at once: it is
\* never found waiting for the ack of a RegisterResponder command or for
\* CloseOk (with a command queued, a waiter registered or a Close enqueued).
C3_CloseIdempotent ==
    \A t \in Tasks :
        (task[t].op = "close" /\ ~task[t].pre) =>
            task[t].pc \notin {"rr_ack", "sr_wait"}

\* C5: while a user task still holds a clone of the handle, no drop of
\* another clone has stored is_open = false and spawned the closing task.
C5_TornDownByLastClone ==
    (\E u \in Users : hasHandle[u]) =>
        \A t \in Users : task[Detached(t)].pc = "unborn"

AllocationAck(t) ==
    /\ task[t].op = "open_channel"
    /\ task[t].pc = "rcr_ack"
    /\ task[t].ack = "pending"
    /\ task'[t].ack = "ok"

\* A call of open_channel that has got past the allocation of its id.
HoldsId(rec) ==
    /\ rec.op = "open_channel"
    /\ \/ rec.pc \in {"rr_ack", "sr_wait"}
       \/ rec.pc = "returned" /\ rec.res = "ok"

UnregisterAck(t) ==
    /\ task[t].op = "chan_close"
    /\ task[t].pc = "un_ack"
    /\ task[t].ack = "pending"
    /\ task'[t].ack = "ok"

\* C8: when the close of channel c is acknowledged, c is no longer
\* registered, and an allocation made while c is the only free id of
\* 1..channel_max answers with exactly c.
C8_ChannelIdReuse ==
    [][\A t \in Users :
          /\ UnregisterAck(t) =>
                /\ task[t].ch \in UserIds
                /\ task[t].ch \notin channels'
                /\ \A r \in responders' : r.ch # task[t].ch
          /\ AllocationAck(t) =>
                \A c \in UserIds :
                    (UserIds \ channels = {c}) => task'[t].ackv = c]_vars

\* C8 witness: every id was registered, one task has closed channel c
\* successfully, and a later open_channel of another task has returned c.
C8_Witness ==
    \E t, u \in Users :
        /\ task[t].op = "chan_close" /\ task[t].pc = "returned"
        /\ task[t].res = "ok"
        /\ task[u].op = "open_channel" /\ task[u].pc = "returned"
        /\ task[u].res = "ok" /\ task[u].ch = task[t].ch
        /\ UserIds \subseteq channels
        /\ task[u].ch \in chanHandles

\* Task t's open_channel, which holds the allocated id c, returns an error in
\* this step; no registration has ever been removed, so that an entry for c
\* is the one this call's allocation made.
OpenChannelFails(t, c) ==
    /\ ~everRemoved
    /\ task[t].op = "open_channel"
    /\ task[t].pc \in {"rr_ack", "sr_wait"}
    /\ task[t].ch = c
    /\ task'[t].pc = "returned"
    /\ task'[t].res = "err"
    /\ c \notin chanHandles
    /\ \A u \in Users \ {t} :
          ~(task[u].op = "open_channel" /\ c \in {task[u].ch, task[u].ackv})

\* C9: when an open_channel that had allocated id c returns its error, the
\* registry holds no entry for c.
C9_FailedOpenLeavesNoEntry ==
    [][\A t \in Users, c \in UserIds :
          OpenChannelFails(t, c) => c \notin channels']_vars

\* C9 failing input: WriterHandler has exited, ReaderHandler has not, and
\* an open_channel has returned its error while its id is still registered.
C9_LeakedRegistration ==
    /\ readerRunning /\ ~writerRunning /\ ~everRemoved
    /\ \E t \in Users :
          /\ task[t].op = "open_channel" /\ task[t].pc = "returned"
          /\ task[t].res = "err"
          /\ task[t].ch \in UserIds /\ task[t].ch \in channels

\* The waiters whose RPC future has been dropped.
StaleWaiters == {r \in responders : ~r.live}

\* C10: a dropped RPC future leaves nothing behind that a later RPC could
\* meet: ReaderHandler never refuses a task the registration of a waiter for
\* (c, k) while the waiter of an RPC on (c, k) that the same task cancelled
\* before is in the registry, and the response that finds a cancelled waiter
\* removes it.
C10_CancelledRpcHarmless ==
    [][/\ \A t \in Users :
             (task[t].pc = "rr_ack" /\ task[t].ack = "pending"
                  /\ task'[t].ack = "err") =>
                 ~\E r \in StaleWaiters :
                     r.task = t /\ r.ch = task[t].ch /\ r.key = task[t].key
       /\ \A r \in StaleWaiters :
             (inbound # <<>> /\ inbound' = Tail(inbound)
                  /\ Head(inbound).ch = r.ch /\ Head(inbound).m = r.key) =>
                 r \notin responders']_vars

\* A handle was dropped while is_open was true: Drop has stored false and
\* spawned the task that calls close().
DropSpawnedClose == \E t \in Users : task[Detached(t)].pc = "spawned"

\* C4: once Drop has spawned close(), a Connection.Close frame is
\* eventually written to the socket.
C4_DropCloseReachesWire == DropSpawnedClose ~> closeWritten

\* Section 4.1 of the design document: each field is the smaller of the two
\* proposals, and a 0 gives way to the other side's value.
Agreed(srv, pref) ==
    IF srv = 0 THEN pref
    ELSE IF pref = 0 THEN srv
    ELSE IF srv < pref THEN srv ELSE pref

\* C12: whatever the client's preference p, each value of the TuneOk that
\* was sent is the agreed one of the server's proposal and p (unless both
\* are 0), and the channel_max the connection keeps is not 0.
C12_TuneNegotiation ==
    hs.tune_ok # NoTune =>
        /\ \A p \in TuneVals :
              /\ (hs.srv.channel_max # 0 \/ p # 0) =>
                    hs.tune_ok.channel_max = Agreed(hs.srv.channel_max, p)
              /\ (hs.srv.frame_max # 0 \/ p # 0) =>
                    hs.tune_ok.frame_max = Agreed(hs.srv.frame_max, p)
              /\ (hs.srv.heartbeat # 0 \/ p # 0) =>
                    hs.tune_ok.heartbeat = Agreed(hs.srv.heartbeat, p)
        /\ hs.channel_max # 0

\* C12 failing input: the server proposed channel_max = 0 and open() has
\* returned a connection whose channel_max is 0.
C12_ZeroChannelMax ==
    hs.pc = "open" /\ hs.srv.channel_max = 0 /\ hs.channel_max = 0

\* The client's writes with the SecureOk frames left out.
RECURSIVE WithoutSecureOk(_)
WithoutSecureOk(log) ==
    IF log = <<>> THEN <<>>
    ELSE IF Head(log) = "SecureOk" THEN WithoutSecureOk(Tail(log))
    ELSE <<Head(log)>> \o WithoutSecureOk(Tail(log))

IsPrefix(a, b) == Len(a) <= Len(b) /\ a = SubSeq(b, 1, Len(a))

\* C13: against a broker that follows the protocol, with any number of
\* Secure rounds, on a transport that does not fail, open() does not fail,
\* and the client's writes are ProtocolHeader, StartOk, the SecureOks,
\* TuneOk, Open, in this order.
C13_SecureRoundsTolerated ==
    /\ faults = 0 => hs.pc # "failed"
    /\ IsPrefix(WithoutSecureOk(hs.log),
                <<"ProtocolHeader", "StartOk", "TuneOk", "Open">>)

\* C13 failing input: the broker answered StartOk with Connection.Secure,
\* nothing else went wrong, and open() has failed at the stage "tune".
C13_SecureRefused ==
    faults = 0 /\ hs.pc = "failed" /\ hs.err = "tune"

\* C14: the handlers run only once OpenOk has been read, and when open() has
\* returned an error neither handler runs, no handle exists and no
\* Connection.Close is queued.
C14_FailedOpenLeavesNothing ==
    /\ (readerRunning \/ writerRunning) =>
          hs.pc \in {"spawned", "registering", "open", "failed"}
    /\ hs.pc = "failed" =>
          /\ ~readerRunning
          /\ ~writerRunning
          /\ \A t \in Users : ~hasHandle[t]
          /\ \A i \in 1 .. Len(outgoing) : outgoing[i].m # "Close"

\* C14 failing input: the registration of the default channel's resource
\* failed, open() has returned its error, and WriterHandler still runs.
C14_WriterLeftRunning ==
    hs.pc = "failed" /\ hs.err = "register" /\ writerRunning

ServerChannelCloseStep(c) ==
    /\ readerRunning /\ readerRunning'
    /\ inbound # <<>>
    /\ Head(inbound) = Frame(c, "CloseChannel", Head(inbound).by)
    /\ inbound' = Tail(inbound)

C15_ServerChannelCloseScoped ==
    [][\A c \in UserIds :
          ServerChannelCloseStep(c) =>
             LET rs == {r \in responders : r.ch = c}
             IN  /\ writerRunning =>
                       outgoing' = Append(outgoing,
                                          Frame(c, "CloseChannelOk", NoTask))
                 /\ channels' = channels \ {c}
                 /\ responders' = responders \ rs
                 /\ \A r \in rs : r.live => task'[r.task].slot = ClosedSlot
                 /\ \A t \in Tasks :
                       (\A r \in rs : r.task # t \/ ~r.live) =>
                           task'[t] = task[t]
                 /\ is_open' = is_open
                 /\ shutdown' = shutdown]_vars

\* A caller's waiter on a user channel has been failed by the server's
\* Channel.Close while the connection stays open with channel 0 registered.
C15_Witness ==
    /\ is_open /\ readerRunning /\ ~shutdown
    /\ CONN_DEFAULT_CHANNEL \in channels
    /\ \E t \in Users :
          /\ task[t].pc = "sr_wait"
          /\ task[t].slot = ClosedSlot
          /\ task[t].ch \in UserIds \ channels
          /\ \E i \in 1 .. Len(outgoing) :
                outgoing[i] = Frame(task[t].ch, "CloseChannelOk", NoTask)

\* C18: is_open is monotone. Once the connection's flag has been false, no
\* step of the facade (set_open_state included) or of ReaderHandler makes it
\* true again.
C18_IsOpenMonotone ==
    [][~is_open => ~is_open']_vars

\* The flag is true although ReaderHandler has exited and the connection is
\* shut down: set_open_state(true) was called after the flag became false.
C18_ReopenedFlag ==
    /\ is_open
    /\ ~readerRunning
    /\ shutdown

\* C19: in every reachable state, if the connection's is_open is false then no
\* channel opened on it has its is_open true.
C19_ClosedConnectionClosesChannels ==
    ~is_open => chanHandles = {}

\* Drop has stored false in the connection's flag while ReaderHandler still
\* runs, and a channel opened on the connection still has its flag true.
C19_ChannelOpenAfterDropStore ==
    /\ ~is_open
    /\ readerRunning /\ ~shutdown
    /\ chanHandles # {}
    /\ \E t \in Users : task[Detached(t)].pc = "spawned"

\* C20: at most one close per connection. However drops of clones and explicit
\* close() calls interleave, at most one Connection.Close frame is queued or
\* on the wire, at most one waiter for Connection.CloseOk is registered on
\* channel 0, and no drop-spawned close task has panicked.
CloseFrames ==
    {i \in 1 .. Len(outgoing) : outgoing[i].m = "Close"}

CloseFramesWritten ==
    {i \in 1 .. Len(wire) : wire[i].m = "Close"}

CloseOkWaiters ==
    {r \in responders : r.ch = CONN_DEFAULT_CHANNEL /\ r.key = "CloseOk"}

C20_AtMostOneClose ==
    /\ Cardinality(CloseFrames) + Cardinality(CloseFramesWritten) <= 1
    /\ Cardinality(CloseOkWaiters) <= 1
    /\ \A t \in Users : task[Detached(t)].pc # "panicked"

\* Two closes were begun on the same connection and the close task spawned by
\* a drop has panicked on the error its close() returned.
C20_DropCloseTaskPanicked ==
    \E t \in Users :
        /\ ~hasHandle[t]
        /\ task[Detached(t)].pc = "panicked"
        /\ task[Detached(t)].op = "close"
        /\ closeWritten

\* open_channel has returned a channel after the connection's flag became false.
C19_OpenedAfterFlagFalse ==
    /\ ~is_open
    /\ \E t \in Users :
          /\ task[t].op = "open_channel"
          /\ task[t].pc = "returned"
          /\ task[t].res = "ok"
          /\ task[t].ch \in chanHandles

\* C16: no RPC hangs across shutdown. Once a shutdown has begun (the broadcast
\* was sent, or one of the two handlers has exited), eventually no caller is
\* blocked in a facade call and the connection's is_open is false.
ShutdownBegun == shutdown \/ ~readerRunning \/ ~writerRunning

BlockedPcs == {"rr_ack", "sr_wait", "rcr_ack", "un_ack"}

Blocked == {t \in Tasks : task[t].pc \in BlockedPcs}

C16_NoRpcHangsAcrossShutdown ==
    ShutdownBegun ~> (Blocked = {} /\ ~is_open)

\* WriterHandler has exited on an I/O error: ReaderHandler still runs, no
\* shutdown was broadcast, is_open is true, and a caller awaits the response
\* to a request that will never be written.
C16_CallerHangsAfterWriterError ==
    /\ ~writerRunning
    /\ readerRunning /\ ~shutdown
    /\ is_open
    /\ outgoing = <<>> /\ wire = <<>> /\ inbound = <<>> /\ mgmt = <<>>
    /\ \E t \in Users :
          /\ task[t].pc = "sr_wait"
          /\ task[t].slot = PendingSlot
          /\ \E r \in responders : r.task = t /\ r.live

\* C17: the round trip terminates. Every call of the round trip returns, and
\* once a task has begun to close the connection or has dropped its handle,
\* eventually both handlers have exited, no detached close task is running,
\* no caller is blocked, no channel handle is open and the registry holds no
\* user channel.
ClosingBegun ==
    \E t \in Users :
        \/ task[t].op = "close" /\ task[t].pc # "idle"
        \/ ~hasHandle[t]

Terminated ==
    /\ ~readerRunning
    /\ ~writerRunning
    /\ \A t \in Tasks \ Users : task[t].pc \in {"unborn", "exited", "panicked"}
    /\ Blocked = {}
    /\ chanHandles = {}
    /\ channels \cap UserIds = {}

====
